---- MODULE Spec2Model ----
(***************************************************************************)
(* Model of bam_to_bigwig.py: the top-level script (__main__), the         *)
(* dependency check (dependences_exist) and one conversion (main) with     *)
(* its helpers bam_to_wig, bam_to_sizes, wig_to_bigwig and query_yes_no.   *)
(*                                                                         *)
(* The script is sequential.  pc is the position of the interpreter, the   *)
(* other variables are the script's variables and the part of the world    *)
(* the script reads and writes: the file system, the permissions, the      *)
(* installed dependencies, the user at the terminal and the two tools.     *)
(***************************************************************************)
EXTENDS Integers, Sequences, FiniteSets, TLC

(***************************************************************************)
(* Bounds of the model.                                                    *)
(***************************************************************************)
\* longest argument list (BAM_FILE [BAM_FILE ...])
MaxFiles == 2
\* most answers typed at one overwrite prompt before the terminal is closed
MaxTries == 2
\* references in the catalog of an alignment file, for the size-table check
MaxRefs == 2

(***************************************************************************)
(* Paths.  A path is [dir, stem, ext]: dir "" is a path relative to the    *)
(* working directory Cwd, any other dir is absolute.  "a.bam" is           *)
(* [dir |-> "", stem |-> "a", ext |-> ".bam"].                             *)
(***************************************************************************)
Cwd == "/d"
TmpDir == "/tmp"

Path(d, s, e) == [dir |-> d, stem |-> s, ext |-> e]

\* os.path.abspath: joins a relative path to the working directory
abspath(p) == IF p.dir = "" THEN [p EXCEPT !.dir = Cwd] ELSE p

\* os.path.dirname(os.path.abspath(p))
dirname(p) == abspath(p).dir

\* os.path.splitext(p)[0]
file_prefix_of(p) == [p EXCEPT !.ext = ""]

\* '%s.wig' % file_prefix, '%s.sizes' % file_prefix, '%s.bigwig' % file_prefix
WithSuffix(prefix, suffix) == [prefix EXCEPT !.ext = prefix.ext \o suffix]

\* the absent option value (options.bigwig_filename is None without -o)
None == Path("", "", "")

\* the n-th name handed out by tempfile.NamedTemporaryFile(delete=False)
TempName(n) == Path(TmpDir, "tmp" \o ToString(n), "")

(***************************************************************************)
(* Python values a helper returns: a bool, or the tuple (rc == 0, rc).     *)
(***************************************************************************)
PyBool(b) == [kind |-> "bool", b |-> b, rc |-> 0]
PyTuple(ok, code) == [kind |-> "tuple", b |-> ok, rc |-> code]

\* truth value Python gives an object in "if not x": a bool is itself,
\* a tuple is true when it has at least one element (this one has two)
Truthy(v) == IF v.kind = "bool" THEN v.b ELSE TRUE

(***************************************************************************)
(* The inputs the model draws from.                                        *)
(***************************************************************************)
\* BAM_FILE arguments: one relative to the working directory, one absolute
InputPaths ==
    { Path("", "a", ".bam"), Path(Cwd, "b", ".bam") }

\* -o: absent, the input itself under its absolute name, the name of the
\* coverage file of a.bam
OutputOptions ==
    { None, Path(Cwd, "a", ".bam"), Path("", "a", ".wig") }

\* exit statuses of an external tool: success, a plain failure, a signal of
\* the table (9, SIGKILL) and a signal outside it (40)
ExitStatuses == { 0, 1, -9, -40 }

\* what the user may type at the overwrite prompt
Answers == { "", "y", "YES", "n", "No", "maybe" }

\* the reference catalog in the header of each alignment file: (name, length) pairs
CatalogOf(bam) ==
    IF abspath(bam).stem = "a"
    THEN << [name |-> "chr1", length |-> 1000], [name |-> "chr2", length |-> 2000] >>
    ELSE << [name |-> "chrM", length |-> 16569] >>

VARIABLES
    args,               \* positional arguments
    options,            \* parsed options: bigwig_filename, use_tempfile, keep_tempfile
    deps,               \* which dependencies are installed
    fs,                 \* file system: absolute path -> contents, for the files that exist
    rofiles,            \* existing files without write permission
    rodirs,             \* directories without write permission
    pc,                 \* position of the script
    all_good,           \* dependences_exist: all_good
    probed,             \* dependences_exist: dependencies probed so far
    idx,                \* position of bam_filename in args (the for loop)
    bigwig_filename,    \* main: bigwig_filename
    wig_filename,       \* main: wig_filename
    chr_sizes_filename, \* main: chr_sizes_filename
    chr_sizes,          \* bam_to_sizes: chr_sizes
    rc1,                \* bam_to_wig: rc
    rc2,                \* wig_to_bigwig: rc
    running,            \* external tool running now, "" for none
    handles,            \* open pysam.Samfile handles
    ntemp,              \* temporary files created so far
    typed,              \* lines raw_input read at the overwrite prompt
    fs0,                \* the file system when main was entered (at first, when the script started)
    exit_status,        \* exit status of the process, -1 while it runs
    uncaught,           \* exception that ended the process, "" for none
    critical,           \* log.critical messages of the current conversion
    log                 \* steps of the current conversion, in order

vars == << args, options, deps, fs, rofiles, rodirs, pc, all_good, probed,
           idx, bigwig_filename, wig_filename, chr_sizes_filename, chr_sizes, rc1, rc2,
           running, handles, ntemp, typed, fs0, exit_status, uncaught, critical, log >>

(***************************************************************************)
(* File system and permissions.                                            *)
(***************************************************************************)
\* os.path.exists / os.path.isfile (the model has no directories in fs)
exists(f, p) == abspath(p) \in DOMAIN f

\* os.path.getsize
getsize(f, p) == Len(f[abspath(p)])

\* os.access(p, os.W_OK) on a file, and on a directory
access_file(p) == abspath(p) \notin rofiles
access_dir(d) == d \notin rodirs

\* a program writes `data` to p, creating or replacing the file
WriteFile(f, p, data) ==
    [q \in DOMAIN f \cup {abspath(p)} |-> IF q = abspath(p) THEN data ELSE f[q]]

\* os.remove
RemoveFile(f, p) == [q \in DOMAIN f \ {abspath(p)} |-> f[q]]

\* os.remove raises OSError: no such file, or no write permission on its directory
RemoveFails(f, p) == ~exists(f, p) \/ ~access_dir(dirname(p))

\* variant: the directory is not looked at
WritePermitted_FileOnly(f, p) == IF exists(f, p) THEN access_file(p) ELSE TRUE

\* the permission check before a tool is launched (bam_to_wig, wig_to_bigwig):
\* the file when it exists, its directory otherwise
WritePermitted(f, p) ==
    IF exists(f, p) THEN access_file(p) ELSE access_dir(dirname(p))

\* variant: open never fails with EACCES
OpenDenied_Never(f, p) == FALSE

\* open(p, "wb") fails with EACCES
OpenDenied(f, p) == ~WritePermitted(f, p)

\* indexed_bam: the index is there, or pysam.index can write it next to the
\* alignment file
IndexAvailable(f, bai) == exists(f, bai) \/ access_dir(dirname(bai))

(***************************************************************************)
(* Pure parts of the script.                                               *)
(***************************************************************************)
\* dependences_exist probes in this order
DepOrder == << "pysam", "wigToBigWig", "rsem-bam2wig" >>

\* exit status of sys.exit() without an argument, of sys.exit(1) and of an
\* uncaught exception, and the status of a script that runs to its end
ExitNoArg == 0
ExitOne == 1
ExitTraceback == 1
ExitEnd == 0

\* variant: the result of dependences_exist() is not tested
ProceedAfterDeps_Unchecked(nargs, good) == nargs > 0

\* __main__: conversions are run when there are arguments and
\* dependences_exist() returned True
ProceedAfterDeps(nargs, good) == nargs > 0 /\ good

\* main: bigwig_filename, the option or '%s.bigwig' % file_prefix
ResolveOutput(bam, opt) ==
    IF opt = None THEN WithSuffix(file_prefix_of(bam), ".bigwig") ELSE opt

\* variant: the two names are compared as given
SamePath_AsGiven(a, b) == a = b

\* main: os.path.abspath(bam_filename) == os.path.abspath(bigwig_filename)
SamePath(a, b) == abspath(a) = abspath(b)

\* main: os.path.exists(bigwig_filename) and os.path.getsize(bigwig_filename) > 0
NeedsConfirmation(f, out) == exists(f, out) /\ getsize(f, out) > 0

\* str.lower() on the answers of the model
Lower(s) == CASE s = "YES" -> "yes" [] s = "No" -> "no" [] OTHER -> s

\* query_yes_no: valid
valid == [c \in {"yes", "y", "ye", "no", "n"} |-> c \in {"yes", "y", "ye"}]

\* query_yes_no(question, default) on one typed line: "True", "False", or
\* "again" when the loop asks once more
query_yes_no(line, default) ==
    LET choice == Lower(line) IN
    IF default # "None" /\ choice = "" THEN (IF valid[default] THEN "True" ELSE "False")
    ELSE IF choice \in DOMAIN valid THEN (IF valid[choice] THEN "True" ELSE "False")
    ELSE "again"

\* variant: the default answer is "yes"
OverwriteDefault_Yes == "yes"

\* main: the default it passes to query_yes_no
OverwriteDefault == "no"

\* keys of unix_signals: minus the numbers of the table
NumSignals == 34

\* variant: the table ends after signal 8
unix_signals_Short == { -n : n \in 1..8 }

\* unix_signals: the table of signals, keyed by the negated signal number
unix_signals == { -n : n \in 1..NumSignals }

\* the log.critical message after a tool terminated with status code
Diagnose(tool, code) ==
    IF code = 0 THEN << >>
    ELSE IF code < 0
         THEN IF code \in unix_signals
              THEN << [tool |-> tool, msg |-> "terminated by signal, described", n |-> -code] >>
              ELSE << [tool |-> tool, msg |-> "terminated by signal", n |-> -code] >>
         ELSE << [tool |-> tool, msg |-> "non-zero return code", n |-> code] >>

Denied(tool) == << [tool |-> tool, msg |-> "Write permission denied", n |-> 0] >>

\* what bam_to_wig and wig_to_bigwig return after the tool terminated
bam_to_wig_return(code) == PyTuple(code = 0, code)
wig_to_bigwig_return(code) == PyTuple(code = 0, code)

\* variant: the result of the helper is not tested
AbortsOn_Never(ret) == FALSE

\* main: "if not <helper>(...): sys.exit(1)"
AbortsOn(ret) == ~Truthy(ret)

\* variant: the intermediates are never removed
ShouldRemove_Never(keep) == FALSE

\* variant: the intermediates are removed whatever keep_tempfile is
ShouldRemove_Always(keep) == TRUE

\* main: "if not keep_tempfile:" guards the two os.remove calls
ShouldRemove(keep) == ~keep

\* main: wig_filename and chr_sizes_filename
IntermediateName(bam, suffix, use_temp, n) ==
    IF use_temp THEN TempName(n + 1) ELSE WithSuffix(file_prefix_of(bam), suffix)

\* NamedTemporaryFile(delete=False) creates the file, empty
AfterNaming(f, name, use_temp) == IF use_temp THEN WriteFile(f, name, "") ELSE f

\* "%s" % size for a size >= 0
Digit(d) == << "0", "1", "2", "3", "4", "5", "6", "7", "8", "9" >>[d + 1]
RECURSIVE Decimal(_)
Decimal(n) == IF n < 10 THEN Digit(n) ELSE Decimal(n \div 10) \o Digit(n % 10)

\* variant: the lines are joined by newlines, without one after the last
RECURSIVE SizesText_Joined(_)
SizesText_Joined(sizes) ==
    IF sizes = << >> THEN ""
    ELSE IF Len(sizes) = 1
    THEN Head(sizes).name \o "\t" \o Decimal(Head(sizes).length)
    ELSE Head(sizes).name \o "\t" \o Decimal(Head(sizes).length) \o "\n"
         \o SizesText_Joined(Tail(sizes))

\* bam_to_sizes: the lines written for chr_sizes
RECURSIVE SizesText(_)
SizesText(sizes) ==
    IF sizes = << >> THEN ""
    ELSE Head(sizes).name \o "\t" \o Decimal(Head(sizes).length) \o "\n"
         \o SizesText(Tail(sizes))

\* indexed_bam: handles open after the with block was left, normally or by an
\* exception raised in it (the generator has no try/finally around its yield)
HandlesAfterWith(h, raised) == IF raised THEN h ELSE h - 1

(***************************************************************************)
(* The external tools.                                                     *)
(***************************************************************************)
\* rsem-bam2wig terminated with status code: on success the coverage file is
\* written; a failing run leaves the file system alone or, with status 1,
\* may have created the file without writing to it
Stage1Outcomes(f, wig, code) ==
    IF code = 0 THEN { WriteFile(f, wig, "WIG") }
    ELSE IF code = 1 THEN { f, WriteFile(f, wig, "") }
    ELSE { f }

\* wigToBigWig can succeed only on input files that exist
Stage2Possible(f, wig, sizes, code) == code = 0 => exists(f, wig) /\ exists(f, sizes)

\* on success the output file is written, a failing run leaves the file system alone
Stage2Outcomes(f, out, code) ==
    IF code = 0 THEN { WriteFile(f, out, "BIGWIG") } ELSE { f }

(***************************************************************************)
(* Initial states: the command line and the world the script starts in.    *)
(***************************************************************************)
ArgLists == UNION { [1..n -> InputPaths] : n \in 0..MaxFiles }

OptionSets ==
    [bigwig_filename : OutputOptions, use_tempfile : BOOLEAN, keep_tempfile : BOOLEAN]

DefaultOptions ==
    [bigwig_filename |-> None, use_tempfile |-> FALSE, keep_tempfile |-> FALSE]

DepSets == [{"pysam", "wigToBigWig", "rsem-bam2wig"} -> BOOLEAN]

AWig == Path(Cwd, "a", ".wig")
ASizes == Path(Cwd, "a", ".sizes")
ABigwig == Path(Cwd, "a", ".bigwig")
ABai == Path(Cwd, "a", ".bam.bai")

\* files found next to the inputs, and permissions: old are non-empty files,
\* empty are empty files, ro and rodirs lack write permission
World(old, empty, ro, dirs) == [old |-> old, empty |-> empty, ro |-> ro, rodirs |-> dirs]

CleanWorld == World({}, {}, {}, {})

Worlds ==
    { CleanWorld,
      World({ABigwig}, {}, {}, {}),
      World({}, {ABigwig}, {ABigwig}, {}),
      World({AWig}, {}, {AWig}, {}),
      World({ASizes}, {}, {ASizes}, {}),
      World({}, {}, {}, {Cwd}),
      World({AWig, ASizes, ABai}, {ABigwig}, {}, {Cwd}) }

\* the input files exist
InitialFiles(w) ==
    [q \in { abspath(p) : p \in InputPaths } \cup w.old \cup w.empty |->
        IF q \in w.empty THEN "" ELSE IF q \in w.old THEN "OLD" ELSE "BAM"]

Init ==
    /\ args \in ArgLists
    /\ options \in OptionSets
    /\ deps \in DepSets
    /\ \E w \in Worlds :
        /\ (Len(args) = 0 \/ \E d \in DOMAIN deps : ~deps[d])
              => (w = CleanWorld /\ options = DefaultOptions)
        /\ fs = InitialFiles(w)
        /\ rofiles = w.ro
        /\ rodirs = w.rodirs
    /\ pc = "deps"
    /\ all_good = TRUE
    /\ probed = << >>
    /\ idx = 0
    /\ bigwig_filename = None
    /\ wig_filename = None
    /\ chr_sizes_filename = None
    /\ chr_sizes = << >>
    /\ rc1 = 0
    /\ rc2 = 0
    /\ running = ""
    /\ handles = 0
    /\ ntemp = 0
    /\ typed = << >>
    /\ fs0 = fs
    /\ exit_status = -1
    /\ uncaught = ""
    /\ critical = << >>
    /\ log = << >>

world == << args, options, deps, rofiles, rodirs >>
locals == << bigwig_filename, wig_filename, chr_sizes_filename, chr_sizes, rc1, rc2 >>

\* the process ends: sys.exit, an uncaught exception, or the end of the script
Exit(status, exc) ==
    /\ pc' = "exited"
    /\ exit_status' = status
    /\ uncaught' = exc

Continue(next) ==
    /\ pc' = next
    /\ UNCHANGED << exit_status, uncaught >>

(***************************************************************************)
(* dependences_exist and the top of __main__.                              *)
(***************************************************************************)
\* one probe of dependences_exist
Probe ==
    /\ pc = "deps"
    /\ Len(probed) < Len(DepOrder)
    /\ LET d == DepOrder[Len(probed) + 1] IN
        /\ probed' = Append(probed, d)
        /\ all_good' = IF deps[d] THEN all_good ELSE FALSE
        /\ critical' = IF deps[d] THEN critical
                       ELSE Append(critical, [tool |-> d, msg |-> "Missing dependency", n |-> 0])
    /\ UNCHANGED << world, fs, pc, idx, locals, running, handles, ntemp, typed, fs0,
                    exit_status, uncaught, log >>

\* dependences_exist returned: sys.exit() or the for loop over args
AfterDeps ==
    /\ pc = "deps"
    /\ Len(probed) = Len(DepOrder)
    /\ IF ProceedAfterDeps(Len(args), all_good)
       THEN idx' = 1 /\ Continue("main")
       ELSE idx' = idx /\ Exit(ExitNoArg, "")
    /\ UNCHANGED << world, fs, all_good, probed, locals, running, handles, ntemp,
                    typed, fs0, critical, log >>

(***************************************************************************)
(* main, up to the overwrite prompt.                                       *)
(***************************************************************************)
MainStart ==
    /\ pc = "main"
    /\ LET bam == args[idx]
           out == ResolveOutput(bam, options.bigwig_filename) IN
        /\ bigwig_filename' = out
        /\ IF SamePath(bam, out) THEN Exit(ExitOne, "")
           ELSE IF NeedsConfirmation(fs, out) THEN Continue("prompt")
           ELSE Continue("stage1")
    /\ fs0' = fs
    /\ log' = Append(log, "validate")
    /\ UNCHANGED << world, fs, all_good, probed, idx, wig_filename, chr_sizes_filename,
                    chr_sizes, rc1, rc2, running, handles, ntemp, typed, critical >>

\* query_yes_no: one line read by raw_input
Prompt ==
    /\ pc = "prompt"
    /\ \E typed_line \in Answers :
        LET answer == query_yes_no(typed_line, OverwriteDefault) IN
        /\ answer = "again" => Len(typed) < MaxTries
        /\ typed' = Append(typed, typed_line)
        /\ log' = Append(log, IF answer = "again" THEN "ask" ELSE "answer")
        /\ IF answer = "again" THEN Continue("prompt")
           ELSE IF answer = "True" THEN Continue("stage1")
           ELSE Exit(ExitOne, "")
    /\ UNCHANGED << world, fs, all_good, probed, idx, locals, running, handles, ntemp,
                    fs0, critical >>

\* raw_input at the end of the input: EOFError, caught nowhere
PromptEOF ==
    /\ pc = "prompt"
    /\ Exit(ExitTraceback, "EOFError")
    /\ UNCHANGED << world, fs, all_good, probed, idx, locals, running, handles, ntemp,
                    typed, fs0, critical, log >>

(***************************************************************************)
(* Stage 1: bam_to_wig.                                                    *)
(***************************************************************************)
\* main names the coverage file and calls bam_to_wig, which checks the write
\* permission and starts rsem-bam2wig
Stage1Launch ==
    /\ pc = "stage1"
    /\ LET name == IntermediateName(args[idx], ".wig", options.use_tempfile, ntemp)
           fs1 == AfterNaming(fs, name, options.use_tempfile) IN
        /\ wig_filename' = name
        /\ fs' = fs1
        /\ ntemp' = IF options.use_tempfile THEN ntemp + 1 ELSE ntemp
        /\ IF WritePermitted(fs1, name)
           THEN /\ running' = "rsem-bam2wig"
                /\ critical' = critical
                /\ log' = log \o << "check1", "launch1" >>
                /\ Continue("stage1_wait")
           ELSE /\ running' = running
                /\ critical' = critical \o Denied("rsem-bam2wig")
                /\ log' = Append(log, "check1")
                /\ IF AbortsOn(PyBool(FALSE)) THEN Exit(ExitOne, "")
                   ELSE Continue("sizes")
    /\ UNCHANGED << world, all_good, probed, idx, bigwig_filename, chr_sizes_filename,
                    chr_sizes, rc1, rc2, handles, typed, fs0 >>

\* p.communicate() returns: rsem-bam2wig terminated
Stage1Exit ==
    /\ pc = "stage1_wait"
    /\ \E code \in ExitStatuses :
        /\ fs' \in Stage1Outcomes(fs, wig_filename, code)
        /\ rc1' = code
        /\ critical' = critical \o Diagnose("rsem-bam2wig", code)
        /\ IF AbortsOn(bam_to_wig_return(code)) THEN Exit(ExitOne, "")
           ELSE Continue("sizes")
    /\ running' = ""
    /\ log' = Append(log, "exit1")
    /\ UNCHANGED << world, all_good, probed, idx, bigwig_filename, wig_filename,
                    chr_sizes_filename, chr_sizes, rc2, handles, ntemp, typed, fs0 >>

(***************************************************************************)
(* The size table: bam_to_sizes, get_sizes_from_bam, indexed_bam.          *)
(***************************************************************************)
\* main names the size table; indexed_bam builds the index when it is
\* missing and opens the alignment file, or pysam raises
SizesOpen ==
    /\ pc = "sizes"
    /\ LET bam == args[idx]
           name == IntermediateName(bam, ".sizes", options.use_tempfile, ntemp)
           fs1 == AfterNaming(fs, name, options.use_tempfile)
           bai == WithSuffix(bam, ".bai") IN
        /\ chr_sizes_filename' = name
        /\ ntemp' = IF options.use_tempfile THEN ntemp + 1 ELSE ntemp
        /\ \/ /\ IndexAvailable(fs1, bai)
              /\ fs' = IF exists(fs1, bai) THEN fs1 ELSE WriteFile(fs1, bai, "BAI")
              /\ handles' = handles + 1
              /\ log' = log \o << "bam_to_sizes", "open" >>
              /\ Continue("sizes_read")
           \/ /\ fs' = fs1
              /\ handles' = handles
              /\ log' = Append(log, "bam_to_sizes")
              /\ Exit(ExitTraceback, "pysam")
    /\ UNCHANGED << world, all_good, probed, idx, bigwig_filename, wig_filename,
                    chr_sizes, rc1, rc2, running, typed, fs0, critical >>

\* the body of the with block reads the reference catalog, or raises
SizesRead ==
    /\ pc = "sizes_read"
    /\ \/ /\ chr_sizes' = CatalogOf(args[idx])
          /\ handles' = HandlesAfterWith(handles, FALSE)
          /\ log' = Append(log, "read")
          /\ Continue("sizes_write")
       \/ /\ chr_sizes' = chr_sizes
          /\ handles' = HandlesAfterWith(handles, TRUE)
          /\ log' = log
          /\ Exit(ExitTraceback, "pysam")
    /\ UNCHANGED << world, fs, all_good, probed, idx, bigwig_filename, wig_filename,
                    chr_sizes_filename, rc1, rc2, running, ntemp, typed, fs0, critical >>

\* open(chr_sizes_filename, "wb") and the writes
SizesWrite ==
    /\ pc = "sizes_write"
    /\ IF OpenDenied(fs, chr_sizes_filename)
       THEN /\ fs' = fs
            /\ critical' = critical \o Denied("bam_to_sizes")
            /\ log' = log
            /\ IF AbortsOn(PyBool(FALSE)) THEN Exit(ExitOne, "") ELSE Continue("stage2")
       ELSE \/ /\ fs' = WriteFile(fs, chr_sizes_filename, SizesText(chr_sizes))
               /\ critical' = critical
               /\ log' = Append(log, "sizes")
               /\ IF AbortsOn(PyBool(TRUE)) THEN Exit(ExitOne, "") ELSE Continue("stage2")
            \/ /\ fs' = fs
               /\ critical' = critical
               /\ log' = log
               /\ Exit(ExitTraceback, "IOError")
    /\ UNCHANGED << world, all_good, probed, idx, locals, running, handles, ntemp, typed, fs0 >>

(***************************************************************************)
(* Stage 2: wig_to_bigwig.                                                 *)
(***************************************************************************)
Stage2Launch ==
    /\ pc = "stage2"
    /\ IF WritePermitted(fs, bigwig_filename)
       THEN /\ running' = "wigToBigWig"
            /\ critical' = critical
            /\ log' = log \o << "check2", "launch2" >>
            /\ Continue("stage2_wait")
       ELSE /\ running' = running
            /\ critical' = critical \o Denied("wigToBigWig")
            /\ log' = Append(log, "check2")
            /\ IF AbortsOn(PyBool(FALSE)) THEN Exit(ExitOne, "") ELSE Continue("cleanup")
    /\ UNCHANGED << world, fs, all_good, probed, idx, locals, handles, ntemp, typed, fs0 >>

Stage2Exit ==
    /\ pc = "stage2_wait"
    /\ \E code \in ExitStatuses :
        /\ Stage2Possible(fs, wig_filename, chr_sizes_filename, code)
        /\ fs' \in Stage2Outcomes(fs, bigwig_filename, code)
        /\ rc2' = code
        /\ critical' = critical \o Diagnose("wigToBigWig", code)
        /\ IF AbortsOn(wig_to_bigwig_return(code)) THEN Exit(ExitOne, "")
           ELSE Continue("cleanup")
    /\ running' = ""
    /\ log' = Append(log, "exit2")
    /\ UNCHANGED << world, all_good, probed, idx, bigwig_filename, wig_filename,
                    chr_sizes_filename, chr_sizes, rc1, handles, ntemp, typed, fs0 >>

(***************************************************************************)
(* Cleanup, the for loop and the interrupt.                                *)
(***************************************************************************)
\* keep_tempfile: nothing is removed
KeepTempfiles ==
    /\ pc = "cleanup"
    /\ ~ShouldRemove(options.keep_tempfile)
    /\ Continue("return")
    /\ UNCHANGED << world, fs, all_good, probed, idx, locals, running, handles, ntemp,
                    typed, fs0, critical, log >>

\* os.remove(chr_sizes_filename)
RemoveSizes ==
    /\ pc = "cleanup"
    /\ ShouldRemove(options.keep_tempfile)
    /\ IF RemoveFails(fs, chr_sizes_filename)
       THEN fs' = fs /\ log' = log /\ Exit(ExitTraceback, "OSError")
       ELSE /\ fs' = RemoveFile(fs, chr_sizes_filename)
            /\ log' = Append(log, "rm_sizes")
            /\ Continue("rm_wig")
    /\ UNCHANGED << world, all_good, probed, idx, locals, running, handles, ntemp,
                    typed, fs0, critical >>

\* os.remove(wig_filename)
RemoveWig ==
    /\ pc = "rm_wig"
    /\ IF RemoveFails(fs, wig_filename)
       THEN fs' = fs /\ log' = log /\ Exit(ExitTraceback, "OSError")
       ELSE /\ fs' = RemoveFile(fs, wig_filename)
            /\ log' = Append(log, "rm_wig")
            /\ Continue("return")
    /\ UNCHANGED << world, all_good, probed, idx, locals, running, handles, ntemp,
                    typed, fs0, critical >>

\* main returned: the next bam_filename of the for loop, with the variables of
\* the finished call gone, or the end of the script
MainReturn ==
    /\ pc = "return"
    /\ IF idx < Len(args)
       THEN /\ idx' = idx + 1
            /\ bigwig_filename' = None
            /\ wig_filename' = None
            /\ chr_sizes_filename' = None
            /\ chr_sizes' = << >>
            /\ rc1' = 0
            /\ rc2' = 0
            /\ typed' = << >>
            /\ critical' = << >>
            /\ log' = << >>
            /\ Continue("main")
       ELSE /\ UNCHANGED << idx, locals, typed, critical, log >>
            /\ Exit(ExitEnd, "")
    /\ UNCHANGED << world, fs, all_good, probed, running, handles, ntemp, fs0 >>

\* variant: the except clause is missing
InterruptCaught_No == FALSE

\* __main__: "except KeyboardInterrupt:" around the for loop
InterruptCaught == TRUE

\* positions inside the try block of __main__
InTry ==
    { "main", "prompt", "stage1", "stage1_wait", "sizes", "sizes_read", "sizes_write",
      "stage2", "stage2_wait", "cleanup", "rm_wig", "return" }

\* KeyboardInterrupt inside the try block: caught, a newline is written and
\* the script ends
Interrupt ==
    /\ pc \in InTry
    /\ log' = Append(log, "interrupt")
    /\ IF InterruptCaught THEN Exit(ExitEnd, "")
       ELSE Exit(ExitTraceback, "KeyboardInterrupt")
    /\ UNCHANGED << world, fs, all_good, probed, idx, locals, running, handles, ntemp,
                    typed, fs0, critical >>

Next ==
    \/ Probe
    \/ AfterDeps
    \/ MainStart
    \/ Prompt
    \/ PromptEOF
    \/ Stage1Launch
    \/ Stage1Exit
    \/ SizesOpen
    \/ SizesRead
    \/ SizesWrite
    \/ Stage2Launch
    \/ Stage2Exit
    \/ KeepTempfiles
    \/ RemoveSizes
    \/ RemoveWig
    \/ MainReturn
    \/ Interrupt

Spec == Init /\ [][Next]_vars

(***************************************************************************)
(* Properties.                                                             *)
(***************************************************************************)
InLog(e) == \E k \in 1..Len(log) : log[k] = e

\* a tool of the current conversion was launched
Launched == InLog("launch1") \/ InLog("launch2")

\* a dependency is not installed
Missing == \E d \in DOMAIN deps : ~deps[d]

\* a permission check of the current conversion failed
DeniedLogged == \E k \in 1..Len(critical) : critical[k].msg = "Write permission denied"

\* the file exists and is not empty
NonEmptyFile(f, p) == abspath(p) \in DOMAIN f /\ f[abspath(p)] # ""

\* C1: main returns normally (the conversion succeeds) only if rsem-bam2wig
\* and wigToBigWig both returned exit status 0; after a non-zero status of
\* either tool the conversion ends with sys.exit(1).
C1_SuccessOnlyIfBothZero ==
    pc = "return" => (rc1 = 0 /\ rc2 = 0)

\* C2: once rsem-bam2wig has terminated with a non-zero status the conversion
\* is over: bam_to_sizes is not called and wigToBigWig is not launched.
C2_Stage1FailureIsTerminal ==
    rc1 # 0 => (pc = "exited" /\ ~InLog("bam_to_sizes") /\ ~InLog("launch2"))

\* C3: while wigToBigWig is launched, the coverage file and the size table
\* both exist and are not empty.
C3_Stage2InputsReady ==
    running = "wigToBigWig" =>
        (NonEmptyFile(fs, wig_filename) /\ NonEmptyFile(fs, chr_sizes_filename))

\* C4: when the absolute output path equals the absolute input path, main
\* ends the process with status 1 right after the comparison, before anything
\* else of the conversion happens; no tool runs with output equal to input.
C4_SamePathRejected ==
    /\ (idx >= 1 /\ InLog("validate")
            /\ abspath(args[idx]) = abspath(bigwig_filename))
         => (pc = "exited" /\ exit_status = 1 /\ uncaught = ""
             /\ log = << "validate" >> /\ running = "" /\ fs = fs0)
    /\ running # "" => abspath(args[idx]) # abspath(bigwig_filename)

C4_Witness ==
    /\ pc = "exited" /\ idx = 2 /\ exit_status = 1
    /\ log = << "validate" >>
    /\ args[idx] # bigwig_filename
    /\ abspath(args[idx]) = abspath(bigwig_filename)

\* C5: in every conversion whose output file existed and was not empty when
\* main was entered, a tool is launched only after the user answered yes,
\* and after a declining answer (the empty line included) no tool is launched
\* and the process has ended with status 1.
C5_OverwriteNeedsYes ==
    (InLog("validate") /\ NonEmptyFile(fs0, bigwig_filename)) =>
        /\ (Launched \/ running # "") =>
              (typed # << >> /\ typed[Len(typed)] \in {"y", "YES"})
        /\ (typed # << >> /\ typed[Len(typed)] \in {"", "n", "No"}) =>
              (~Launched /\ running = "" /\ pc = "exited" /\ exit_status = 1)

\* the second input of a run finds the output the first one wrote, and the
\* user answers with the empty line
C5_Witness ==
    /\ idx = 2 /\ InLog("validate") /\ NonEmptyFile(fs0, bigwig_filename)
    /\ fs0[abspath(bigwig_filename)] = "BIGWIG"
    /\ typed = << "maybe", "" >>
    /\ pc = "exited" /\ exit_status = 1

C7_NoRemovalAfterFailure ==
    (rc1 # 0 \/ rc2 # 0 \/ DeniedLogged) => (~InLog("rm_sizes") /\ ~InLog("rm_wig"))

\* C8, as claimed: a failed stage or size table ends the conversion of that
\* input only, so the process does not end by sys.exit at a failed
\* conversion while inputs remain.
C8_FailureIsIsolated ==
    (pc = "exited" /\ uncaught = "" /\ ~InLog("interrupt")
        /\ (DeniedLogged \/ rc1 # 0 \/ rc2 # 0))
      => idx = Len(args)

\* C8, amended: a failed permission check of stage 1 or stage 2, or a size
\* table that cannot be opened for lack of permission, ends the process with
\* status 1; no later input is started.
C8_DetectedFailureEndsRun ==
    DeniedLogged => (pc = "exited" /\ exit_status = 1 /\ uncaught = "")

C8_Witness ==
    /\ DeniedLogged /\ pc = "exited" /\ exit_status = 1
    /\ idx = 1 /\ Len(args) = 2
    /\ InLog("exit1")

\* C9: with at least one argument and a dependency missing, the process ends
\* with a non-zero exit status.
C9_MissingDependencyFails ==
    (pc = "exited" /\ Len(args) >= 1 /\ Missing) => exit_status # 0

\* C10: no conversion starts before all three dependencies were probed, and
\* with a dependency missing nothing of any conversion happens: no
\* validation, no prompt, no tool, no file opened, written or removed.
C10_NothingBeforeDependencies ==
    /\ idx >= 1 => Len(probed) = 3
    /\ (Missing /\ pc = "exited") => Len(probed) = 3
    /\ Missing =>
          /\ pc \in {"deps", "exited"}
          /\ idx = 0 /\ log = << >> /\ typed = << >>
          /\ running = "" /\ handles = 0 /\ ntemp = 0
          /\ fs = fs0

C10_Witness ==
    /\ pc = "exited" /\ Missing /\ deps["pysam"] /\ Len(args) = 2
    /\ Len(probed) = 3 /\ idx = 0

\* C11: after both tools returned 0, without keep_tempfile, an os.remove
\* that fails does not end the process with an error: no OSError reaches
\* the top level, and the other intermediate is removed all the same.
C11_RemoveFailureTolerated ==
    (InLog("exit1") /\ InLog("exit2") /\ rc1 = 0 /\ rc2 = 0
        /\ ~options.keep_tempfile /\ pc = "exited" /\ ~InLog("interrupt"))
      => /\ uncaught = ""
         /\ exit_status = 0
         /\ abspath(wig_filename) \notin DOMAIN fs

\* C12: outside the with block of get_sizes_from_bam no Samfile handle is
\* open, whether the block was left normally or by an exception.
C12_HandleReleased ==
    pc # "sizes_read" => handles = 0

\* the target can be written: the file when it exists, else its directory
TargetWritable(p) ==
    IF abspath(p) \in DOMAIN fs THEN abspath(p) \notin rofiles
    ELSE abspath(p).dir \notin rodirs

\* position of the first e in the log, 0 when there is none
FirstInLog(e) ==
    IF InLog(e) THEN CHOOSE k \in 1..Len(log) :
                        log[k] = e /\ \A j \in 1..(k - 1) : log[j] # e
    ELSE 0

\* C13: each stage checks the write permission of its target (coverage file,
\* output file) before it launches its tool; when the target exists and is
\* not writable, or is missing in a directory that is not writable, the tool
\* is not launched and the process ends with status 1.
C13_PermissionCheckedFirst ==
    /\ (InLog("check1") /\ ~TargetWritable(wig_filename)) =>
          (~InLog("launch1") /\ running = "" /\ pc = "exited" /\ exit_status = 1)
    /\ (InLog("check2") /\ ~TargetWritable(bigwig_filename)) =>
          (~InLog("launch2") /\ running # "wigToBigWig"
           /\ pc = "exited" /\ exit_status = 1)
    /\ InLog("launch1") => (FirstInLog("check1") # 0 /\ FirstInLog("check1") < FirstInLog("launch1"))
    /\ InLog("launch2") => (FirstInLog("check2") # 0 /\ FirstInLog("check2") < FirstInLog("launch2"))

\* the output file exists without write permission: stage 2 is refused
\* after stage 1 ran
C13_Witness ==
    /\ InLog("exit1") /\ InLog("check2") /\ ~InLog("launch2")
    /\ abspath(bigwig_filename) \in DOMAIN fs
    /\ abspath(bigwig_filename) \in rofiles
    /\ pc = "exited" /\ exit_status = 1

\* C14: in one conversion wigToBigWig is launched only after rsem-bam2wig
\* has terminated and after the size table was written and closed, and at
\* no time more than one tool has been launched and not yet waited for.
C14_StrictOrder ==
    /\ InLog("launch2") =>
          /\ InLog("exit1") /\ InLog("sizes")
          /\ FirstInLog("launch1") < FirstInLog("exit1")
          /\ FirstInLog("exit1") < FirstInLog("sizes")
          /\ FirstInLog("sizes") < FirstInLog("launch2")
    /\ running = "wigToBigWig" => (InLog("exit1") /\ ~InLog("exit2"))
    /\ running = "rsem-bam2wig" => (~InLog("exit1") /\ ~InLog("launch2"))
    /\ Cardinality({k \in 1..Len(log) : log[k] \in {"launch1", "launch2"}})
         - Cardinality({k \in 1..Len(log) : log[k] \in {"exit1", "exit2"}}) \in {0, 1}

C14_Witness ==
    /\ running = "wigToBigWig" /\ pc = "stage2_wait"
    /\ rc1 = 0 /\ idx = 2
    /\ fs[abspath(chr_sizes_filename)] # ""

\* C15: the inputs are converted in the order of the arguments, one after the
\* other: the loop moves to the next input only from the end of main, when
\* no tool runs, no handle is open and, without keep_tempfile, both
\* intermediates of the input have been removed.
C15_OneInputAtATime ==
    [][idx' # idx =>
         /\ idx' = idx + 1
         /\ idx >= 1 =>
              /\ pc = "return"
              /\ running = "" /\ handles = 0
              /\ InLog("exit1") /\ InLog("exit2")
              /\ ~options.keep_tempfile =>
                    /\ InLog("rm_sizes") /\ InLog("rm_wig")
                    /\ abspath(wig_filename) \notin DOMAIN fs
                    /\ abspath(chr_sizes_filename) \notin DOMAIN fs
         /\ pc' = "main" /\ log' = << >>]_vars

\* the second input is at its stage 1 and the intermediates of the first
\* one are gone
C15_Witness ==
    /\ idx = 2 /\ running = "rsem-bam2wig"
    /\ ~options.keep_tempfile /\ ~options.use_tempfile
    /\ args[1] # args[2]
    /\ abspath([args[1] EXCEPT !.ext = ".wig"]) \notin DOMAIN fs
    /\ abspath([args[1] EXCEPT !.ext = ".sizes"]) \notin DOMAIN fs
    /\ abspath([args[1] EXCEPT !.ext = ".bam.bai"]) \in DOMAIN fs

\* C16: a KeyboardInterrupt while inputs are converted is caught: the process
\* ends at once with status 0 and without a traceback, no step of this or a
\* later input follows, and no file is removed or written by the interrupt
\* or after it.
C16_InterruptEndsRun ==
    /\ [](InLog("interrupt") =>
            /\ pc = "exited" /\ exit_status = 0 /\ uncaught = ""
            /\ log[Len(log)] = "interrupt"
            /\ Cardinality({k \in 1..Len(log) : log[k] = "interrupt"}) = 1)
    /\ [][(pc' = "exited" /\ log' # log /\ log'[Len(log')] = "interrupt") =>
            (fs' = fs /\ idx' = idx /\ running' = running)]_vars
    /\ [][InLog("interrupt") => UNCHANGED vars]_vars

\* interrupted while wigToBigWig runs for the first of two inputs; the
\* coverage file and the size table are on disk
C16_Witness ==
    /\ InLog("interrupt") /\ running = "wigToBigWig"
    /\ idx = 1 /\ Len(args) = 2
    /\ abspath(wig_filename) \in DOMAIN fs
    /\ abspath(chr_sizes_filename) \in DOMAIN fs
    /\ pc = "exited"

(***************************************************************************)
(* The size table for any catalog: bam_to_sizes after get_sizes_from_bam   *)
(* returned, for catalogs of up to MaxRefs references.                     *)
(***************************************************************************)
RefNames == { "chr1", "chr2", "chrM" }
RefLengths == { 0, 7, 10, 1000, 2000, 16569 }
Refs == [name : RefNames, length : RefLengths]
Catalogs == UNION { [1..n -> Refs] : n \in 0..MaxRefs }

\* the size table is writable, or it exists without write permission
SizesWorlds == { CleanWorld, World({ASizes}, {}, {ASizes}, {}) }

\* main at the open of bam_to_sizes, for a.bam with default options, after a
\* successful stage 1
SizesInit ==
    /\ args = << Path("", "a", ".bam") >>
    /\ options = DefaultOptions
    /\ deps = [d \in {"pysam", "wigToBigWig", "rsem-bam2wig"} |-> TRUE]
    /\ \E w \in SizesWorlds :
        /\ fs0 = InitialFiles(w)
        /\ rofiles = w.ro
        /\ rodirs = w.rodirs
    /\ fs = WriteFile(WriteFile(fs0, Path("", "a", ".wig"), "WIG"),
                      Path("", "a", ".bam.bai"), "BAI")
    /\ pc = "sizes_write"
    /\ all_good = TRUE
    /\ probed = DepOrder
    /\ idx = 1
    /\ bigwig_filename = Path("", "a", ".bigwig")
    /\ wig_filename = Path("", "a", ".wig")
    /\ chr_sizes_filename = Path("", "a", ".sizes")
    /\ chr_sizes \in Catalogs
    /\ rc1 = 0
    /\ rc2 = 0
    /\ running = ""
    /\ handles = 0
    /\ ntemp = 0
    /\ typed = << >>
    /\ exit_status = -1
    /\ uncaught = ""
    /\ critical = << >>
    /\ log = << "validate", "check1", "launch1", "exit1", "bam_to_sizes", "open", "read" >>

SizesNext == SizesWrite

SizesSpec == SizesInit /\ [][SizesNext]_vars

\* the decimal numerals of the lengths in RefLengths
Numeral ==
    (0 :> "0") @@ (7 :> "7") @@ (10 :> "10") @@ (1000 :> "1000")
        @@ (2000 :> "2000") @@ (16569 :> "16569")

\* one line of the size table: name, tab, length, newline
TableLine(r) == r.name \o "\t" \o Numeral[r.length] \o "\n"

\* the lines of a catalog in catalog order, from the first to the last
TableOf(c) ==
    LET upto[k \in 0..Len(c)] == IF k = 0 THEN "" ELSE upto[k - 1] \o TableLine(c[k])
    IN upto[Len(c)]

\* C17: for every reference catalog the size table written by bam_to_sizes
\* holds exactly one line name<TAB>length<NEWLINE> per reference, in catalog
\* order, and nothing else; the catalog (chr1, 1000), (chr2, 2000) gives
\* exactly "chr1\t1000\nchr2\t2000\n".
C17_SizeTableFormat ==
    InLog("sizes") =>
        /\ abspath(chr_sizes_filename) \in DOMAIN fs
        /\ fs[abspath(chr_sizes_filename)] = TableOf(chr_sizes)
        /\ chr_sizes = << [name |-> "chr1", length |-> 1000],
                          [name |-> "chr2", length |-> 2000] >>
              => fs[abspath(chr_sizes_filename)] = "chr1\t1000\nchr2\t2000\n"
        /\ chr_sizes = << >> => fs[abspath(chr_sizes_filename)] = ""

\* the size table of the catalog (chr1, 1000), (chr2, 2000) has been written
C17_Witness ==
    /\ InLog("sizes") /\ pc = "stage2"
    /\ chr_sizes = << [name |-> "chr1", length |-> 1000],
                      [name |-> "chr2", length |-> 2000] >>
    /\ fs[abspath(chr_sizes_filename)] = "chr1\t1000\nchr2\t2000\n"

\* bam_to_sizes logged that the size table cannot be written
DeniedSizes ==
    \E k \in 1..Len(critical) :
        critical[k].tool = "bam_to_sizes" /\ critical[k].msg = "Write permission denied"

\* C18: when the open of the size table is refused for lack of permission,
\* bam_to_sizes logs it and the process ends with status 1 without a
\* traceback; when the open fails otherwise, the IOError is not caught and
\* ends the process with a non-zero status; in both cases no size table is
\* written and wigToBigWig is neither checked for nor launched.
C18_SizeTableOpenFailure ==
    /\ DeniedSizes =>
          /\ pc = "exited" /\ exit_status = 1 /\ uncaught = ""
          /\ ~InLog("sizes") /\ ~InLog("check2") /\ ~InLog("launch2") /\ running = ""
    /\ uncaught = "IOError" =>
          /\ pc = "exited" /\ exit_status # 0 /\ exit_status # -1
          /\ ~DeniedSizes
          /\ ~InLog("sizes") /\ ~InLog("check2") /\ ~InLog("launch2") /\ running = ""
    /\ (InLog("read") /\ pc # "sizes_write" /\ ~InLog("interrupt")
            /\ ~TargetWritable(chr_sizes_filename)) => DeniedSizes

\* the size table exists without write permission; stage 1 had run
C18_Witness ==
    /\ DeniedSizes /\ InLog("exit1") /\ rc1 = 0
    /\ abspath(chr_sizes_filename) \in rofiles
    /\ fs[abspath(chr_sizes_filename)] = fs0[abspath(chr_sizes_filename)]
    /\ pc = "exited" /\ exit_status = 1

\* the termination messages logged for a tool in this conversion
ToolMessages(tool) ==
    SelectSeq(critical, LAMBDA e : e.tool = tool /\ e.msg # "Write permission denied")

\* the message the classification asks for: none for 0, the return code for a
\* positive status, the signal for a negative one, described for 1..34
Classified(tool, code) ==
    IF code = 0 THEN ToolMessages(tool) = << >>
    ELSE IF code > 0
    THEN ToolMessages(tool) = << [tool |-> tool, msg |-> "non-zero return code", n |-> code] >>
    ELSE IF (0 - code) \in 1..34
    THEN ToolMessages(tool) =
            << [tool |-> tool, msg |-> "terminated by signal, described", n |-> 0 - code] >>
    ELSE ToolMessages(tool) =
            << [tool |-> tool, msg |-> "terminated by signal", n |-> 0 - code] >>

\* C19: both tools' exit statuses are classified the same way: nothing is
\* logged for 0, a non-zero-return-code message for a positive status, for a
\* negative one a described-signal message when the signal is one of 1..34
\* and a bare one otherwise; and what the script does after a tool was ended
\* by a signal is the same for a signal of the table and for one outside it.
C19_SameClassification ==
    /\ InLog("exit1") => Classified("rsem-bam2wig", rc1)
    /\ InLog("exit2") => Classified("wigToBigWig", rc2)
    /\ (InLog("exit2") /\ rc1 = rc2 /\ rc1 # 0) =>
          /\ Len(ToolMessages("rsem-bam2wig")) = 1
          /\ Len(ToolMessages("wigToBigWig")) = 1
          /\ ToolMessages("rsem-bam2wig")[1].msg = ToolMessages("wigToBigWig")[1].msg
          /\ ToolMessages("rsem-bam2wig")[1].n = ToolMessages("wigToBigWig")[1].n
    /\ pc = "stage1_wait" =>
          \A next \in { "sizes", "exited" }, st \in { -1, 0, 1 } :
              (ENABLED (Stage1Exit /\ rc1' = -9 /\ pc' = next /\ exit_status' = st))
                <=> (ENABLED (Stage1Exit /\ rc1' = -40 /\ pc' = next /\ exit_status' = st))
    /\ pc = "stage2_wait" =>
          \A next \in { "cleanup", "exited" }, st \in { -1, 0, 1 } :
              (ENABLED (Stage2Exit /\ rc2' = -9 /\ pc' = next /\ exit_status' = st))
                <=> (ENABLED (Stage2Exit /\ rc2' = -40 /\ pc' = next /\ exit_status' = st))

\* rsem-bam2wig was ended by signal 9, of the table, and wigToBigWig by
\* signal 40, outside it
C19_Witness ==
    /\ InLog("exit2") /\ rc1 = -9 /\ rc2 = -40
    /\ Len(critical) = 2
    /\ critical[1].msg = "terminated by signal, described"
    /\ critical[2].msg = "terminated by signal"

\* C20: the coverage file and the size table that the cleanup removes are
\* neither the output file nor the input file, so that after a successful
\* conversion without keep_tempfile the output and the input exist.
C20_CleanupSparesOutput ==
    (pc = "return" /\ InLog("exit2") /\ rc1 = 0 /\ rc2 = 0 /\ ~options.keep_tempfile) =>
        /\ abspath(wig_filename) # abspath(bigwig_filename)
        /\ abspath(chr_sizes_filename) # abspath(bigwig_filename)
        /\ abspath(wig_filename) # abspath(args[idx])
        /\ abspath(chr_sizes_filename) # abspath(args[idx])
        /\ abspath(bigwig_filename) \in DOMAIN fs
        /\ abspath(args[idx]) \in DOMAIN fs

====
